---- MODULE Spec2Model ----
(***************************************************************************)
(* POST /api/generate-quiz of src/server.js.  The file holds two versions  *)
(* of the handler (lines 21-158 and lines 190-349); `version` says which   *)
(* one serves the request.  A request is received, validated, the          *)
(* completion provider is called once, and the continuation of the handler *)
(* strips markdown fences, parses, falls back, validates, normalises and   *)
(* answers.                                                                *)
(***************************************************************************)
EXTENDS Integers, Sequences, FiniteSets, TLC

VARIABLES version, pc, req, providerCalls, completion, responses

vars == <<version, pc, req, providerCalls, completion, responses>>

----------------------------------------------------------------------------
(* Bounds of the model *)

MaxBatch == 2
MaxMixedLen == 2
MaxUniformLen == 11

(* Math.min(numQuestions, 10), (batch - 1) * 10 + 1, (batch * 10) *)
MaxPerBatch == 10

----------------------------------------------------------------------------
(* JavaScript values of the fields of a request and of a question *)

Undefined == [t |-> "undefined", n |-> 0, s |-> "", xs |-> <<>>]
Null == [t |-> "null", n |-> 0, s |-> "", xs |-> <<>>]
Num(k) == [t |-> "number", n |-> k, s |-> "", xs |-> <<>>]
Str(x) == [t |-> "string", n |-> 0, s |-> x, xs |-> <<>>]
Bool(b) == [t |-> "boolean", n |-> IF b THEN 1 ELSE 0, s |-> "", xs |-> <<>>]
\* an array of k strings, its content named by a label
StrArray(k, label) == [t |-> "array", n |-> k, s |-> label, xs |-> <<>>]
\* an array of numbers
NumArray(a) == [t |-> "array", n |-> Len(a), s |-> "", xs |-> a]

\* ToBoolean, as used by ! and ||
Truthy(v) ==
    CASE v.t = "undefined" -> FALSE
      [] v.t = "null" -> FALSE
      [] v.t = "number" -> v.n # 0
      [] v.t = "string" -> v.s # ""
      [] v.t = "boolean" -> v.n = 1
      [] OTHER -> TRUE

\* a || b
Or(a, b) == IF Truthy(a) THEN a ELSE b

\* Array.isArray(v)
IsArray(v) == v.t = "array"

----------------------------------------------------------------------------
(* Decoded JSON: the elements of a reply array and the reply value itself *)

NoFields ==
    [id |-> Undefined, question |-> Undefined, options |-> Undefined,
     correctAnswers |-> Undefined, multipleChoice |-> Undefined,
     difficulty |-> Undefined, explanation |-> Undefined, category |-> Undefined]

\* k is the JSON type of the element; f are the properties a read of it yields
EmptyObject == [k |-> "object", f |-> NoFields]
NullElement == [k |-> "null", f |-> NoFields]
NumberElement == [k |-> "number", f |-> NoFields]
IdOnlyObject(i) == [k |-> "object", f |-> [NoFields EXCEPT !.id = i]]
FullObject ==
    [k |-> "object",
     f |-> [id |-> Num(0), question |-> Str("Q"), options |-> StrArray(4, "provider"),
            correctAnswers |-> NumArray(<<1, 3>>), multipleChoice |-> Bool(TRUE),
            difficulty |-> Str("easy"), explanation |-> Str("E"), category |-> Str("C")]]
GarbledObject ==
    [k |-> "object",
     f |-> [id |-> Str("seven"), question |-> Num(0), options |-> Str("a,b"),
            correctAnswers |-> Num(2), multipleChoice |-> Null,
            difficulty |-> Num(3), explanation |-> Bool(FALSE), category |-> Str("")]]

Elements ==
    {EmptyObject, IdOnlyObject(Num(2)), FullObject, GarbledObject, NullElement, NumberElement}

JValue(type, a) == [t |-> type, a |-> a]
JArray(a) == JValue("array", a)
\* text that is no JSON at all
NotJson == JValue("invalid", <<>>)

Repeat(e, k) == [i \in 1..k |-> e]

MixedArrays == UNION {[1..k -> Elements] : k \in 1..MaxMixedLen}
UniformArrays == {Repeat(EmptyObject, k) : k \in (MaxMixedLen + 1)..MaxUniformLen}

ReplyValues ==
    {NotJson, JValue("null", <<>>), JValue("number", <<>>), JValue("string", <<>>),
     JValue("object", <<>>), JArray(<<>>)}
    \cup {JArray(a) : a \in MixedArrays \cup UniformArrays}

----------------------------------------------------------------------------
(* The reply text: a sequence of tokens *)

\* the three backticks of a markdown fence
Fence == [k |-> "fence", p |-> NotJson]
Json == [k |-> "json", p |-> NotJson]
Newline == [k |-> "newline", p |-> NotJson]
Body(v) == [k |-> "body", p |-> v]

Prefixes == {<<>>, <<Fence, Json, Newline>>, <<Fence, Newline>>, <<Newline, Fence, Json>>}
Suffixes == {<<>>, <<Newline, Fence>>, <<Fence, Newline>>}

Texts ==
    {p \o <<Body(v)>> \o s : p \in Prefixes, s \in Suffixes, v \in ReplyValues}
    \cup {<<>>, <<Fence, Json>>, <<Fence, Json, Fence>>}

\* message.content of the completion: a text, or null
Content(text) == [kind |-> "text", text |-> text, message |-> ""]
NullContent == [kind |-> "null", text |-> <<>>, message |-> ""]
ProviderError(m) == [kind |-> "error", text |-> <<>>, message |-> m]
NoCompletion == [kind |-> "none", text |-> <<>>, message |-> ""]

Contents == {Content(t) : t \in Texts} \cup {NullContent}
ErrorMessages == {"429 Rate limit reached", "Connection error."}

----------------------------------------------------------------------------
(* String operations of the handler *)

RECURSIVE trimStart(_)
trimStart(s) == IF s # <<>> /\ Head(s) = Newline THEN trimStart(Tail(s)) ELSE s

RECURSIVE trimEnd(_)
trimEnd(s) ==
    IF s # <<>> /\ s[Len(s)] = Newline THEN trimEnd(SubSeq(s, 1, Len(s) - 1)) ELSE s

trim(s) == trimEnd(trimStart(s))

startsWith(s, pre) == Len(s) >= Len(pre) /\ SubSeq(s, 1, Len(pre)) = pre

\* s.replace(/<marker>\n?/, "") for an s that starts with the marker
replaceLeading(s, marker) ==
    LET rest == SubSeq(s, Len(marker) + 1, Len(s))
    IN IF rest # <<>> /\ Head(rest) = Newline THEN Tail(rest) ELSE rest

\* s.replace(/\n?<fence>$/, "")
replaceTrailing(s) ==
    IF s # <<>> /\ s[Len(s)] = Fence
    THEN IF Len(s) >= 2 /\ s[Len(s) - 1] = Newline
         THEN SubSeq(s, 1, Len(s) - 2)
         ELSE SubSeq(s, 1, Len(s) - 1)
    ELSE s

cleanResponse(s) ==
    LET r1 == IF startsWith(s, <<Fence, Json>>)
              THEN replaceTrailing(replaceLeading(s, <<Fence, Json>>))
              ELSE s
    IN IF startsWith(r1, <<Fence>>)
       THEN replaceTrailing(replaceLeading(r1, <<Fence>>))
       ELSE r1

\* JSON.parse: one JSON value, white space around it allowed
JSONparse(s) ==
    LET body == SelectSeq(s, LAMBDA x : x # Newline)
    IN IF Len(body) = 1 /\ body[1].k = "body" /\ body[1].p.t # "invalid"
       THEN [ok |-> TRUE, value |-> body[1].p]
       ELSE [ok |-> FALSE, value |-> NotJson]

----------------------------------------------------------------------------
(* Requests *)

Request(topic, numQuestions, batch, totalQuestions) ==
    [topic |-> topic, numQuestions |-> numQuestions, batch |-> batch,
     totalQuestions |-> totalQuestions]

NoRequest == Request(Undefined, Undefined, Undefined, Undefined)

Topics == {Undefined, Str(""), Str("graphs")}
NumQuestionsValues == {Undefined, Num(0), Num(-1), Num(3), Num(25)}
Batches == {Undefined} \cup {Num(b) : b \in 1..MaxBatch}
TotalQuestionsValues == {Undefined, Num(20), Num(25)}

Requests ==
    {Request(t, n, b, tq) : t \in Topics, n \in NumQuestionsValues, b \in Batches,
                            tq \in TotalQuestionsValues}

\* destructuring defaults: batch = 1, totalQuestions = numQuestions
batchOf(r) == IF r.batch = Undefined THEN 1 ELSE r.batch.n
totalQuestionsOf(r) ==
    IF r.totalQuestions = Undefined THEN r.numQuestions.n ELSE r.totalQuestions.n

\* !topic || !numQuestions
missingInput(r) == ~Truthy(r.topic) \/ ~Truthy(r.numQuestions)

min(a, b) == IF a < b THEN a ELSE b

limitedQuestionsNoCap(numQuestions) == numQuestions
limitedQuestionsOf(numQuestions) == min(numQuestions, MaxPerBatch)

startingIdOf(batch) == (batch - 1) * MaxPerBatch + 1

hasMoreBatchesInclusive(batch, totalQuestions) == batch * MaxPerBatch <= totalQuestions
hasMoreBatchesOf(batch, totalQuestions) == batch * MaxPerBatch < totalQuestions

\* the arguments of openai.chat.completions.create that depend on the request
providerCall(v, r) ==
    [model |-> IF v = 1 THEN "gpt-4o" ELSE "gpt-4.1-2025-04-14",
     topic |-> r.topic,
     batch |-> batchOf(r),
     limitedQuestions |-> limitedQuestionsOf(r.numQuestions.n),
     startingId |-> startingIdOf(batchOf(r))]

----------------------------------------------------------------------------
(* Responses *)

errorResponse(status, error, details) ==
    [status |-> status, error |-> error, details |-> details, success |-> FALSE,
     questions |-> <<>>, topic |-> Undefined, batch |-> 0, questionsInBatch |-> 0,
     totalQuestions |-> 0, hasMoreBatches |-> FALSE]

badRequest == errorResponse(400, "Topic and number of questions are required", "")

serverError(message) == errorResponse(500, "Failed to generate quiz questions", message)

successResponse(questions, r) ==
    [status |-> 200, error |-> "", details |-> "", success |-> TRUE,
     questions |-> questions, topic |-> r.topic, batch |-> batchOf(r),
     questionsInBatch |-> Len(questions), totalQuestions |-> totalQuestionsOf(r),
     hasMoreBatches |-> hasMoreBatchesOf(batchOf(r), totalQuestionsOf(r))]

----------------------------------------------------------------------------
(* The continuation of the handler after the provider's reply *)

fallbackThreeOptions(v, topic, startingId) ==
    <<[k |-> "object",
       f |-> [id |-> Num(startingId), question |-> Str("fallback"),
              options |-> StrArray(3, "fallback"), correctAnswers |-> NumArray(<<0>>),
              multipleChoice |-> Bool(FALSE), difficulty |-> Str("medium"),
              explanation |-> Str("fallback"), category |-> topic]]>>
\* the single question substituted when JSON.parse throws
fallbackQuestions(v, topic, startingId) ==
    IF v = 1
    THEN <<[k |-> "object",
            f |-> [id |-> Num(1), question |-> Str("fallback"),
                   options |-> StrArray(4, "fallback"), correctAnswers |-> NumArray(<<0>>),
                   multipleChoice |-> Bool(FALSE), difficulty |-> Str("medium"),
                   explanation |-> Str("fallback"), category |-> topic]]>>
    ELSE <<[k |-> "object",
            f |-> [id |-> Num(startingId), question |-> Str("fallback"),
                   options |-> StrArray(4, "fallback"), correctAnswers |-> NumArray(<<2>>),
                   multipleChoice |-> Bool(FALSE), difficulty |-> Str("hard"),
                   explanation |-> Str("fallback"), category |-> topic]]>>

decodeNoFallback(v, text, topic, startingId) == JSONparse(text).value
\* try { questions = JSON.parse(response) } catch { questions = [fallback] }
decode(v, text, topic, startingId) ==
    LET parsed == JSONparse(text)
    IN IF parsed.ok THEN parsed.value ELSE JArray(fallbackQuestions(v, topic, startingId))

isArrayOnly(questions) == questions.t = "array"
\* the negation of !Array.isArray(questions) || questions.length === 0
isNonEmptyArray(questions) == questions.t = "array" /\ Len(questions.a) # 0

\* the callback of questions.map; index counts from 0
validateQuestion(q, index, startingId, topic) ==
    [id |-> Or(q.f.id, Num(startingId + index)),
     question |-> Or(q.f.question, Str("")),
     options |-> IF IsArray(q.f.options) THEN q.f.options ELSE StrArray(0, ""),
     correctAnswers |-> IF IsArray(q.f.correctAnswers) THEN q.f.correctAnswers
                        ELSE NumArray(<<0>>),
     multipleChoice |-> Or(q.f.multipleChoice, Bool(FALSE)),
     difficulty |-> Or(q.f.difficulty, Str("medium")),
     explanation |-> Or(q.f.explanation, Str("")),
     category |-> Or(q.f.category, topic)]

\* reading a property of null throws a TypeError
mapThrows(a) == \E i \in 1..Len(a) : a[i].k = "null"

validatedQuestions(a, startingId, topic) ==
    [i \in 1..Len(a) |-> validateQuestion(a[i], i - 1, startingId, topic)]

\* everything from `completion.choices[0].message.content.trim()` to the response
respond(v, r, c) ==
    IF c.kind = "null"
    THEN serverError("Cannot read properties of null (reading 'trim')")
    ELSE LET startingId == startingIdOf(batchOf(r))
             response == cleanResponse(trim(c.text))
             questions == decode(v, response, r.topic, startingId)
         IN IF ~isNonEmptyArray(questions)
            THEN serverError("Invalid question format received")
            ELSE IF mapThrows(questions.a)
            THEN serverError("Cannot read properties of null (reading 'id')")
            ELSE successResponse(validatedQuestions(questions.a, startingId, r.topic), r)

----------------------------------------------------------------------------
(* Actions *)

Init ==
    /\ version \in {1, 2}
    /\ pc = "idle"
    /\ req = NoRequest
    /\ providerCalls = <<>>
    /\ completion = NoCompletion
    /\ responses = <<>>

\* the handler up to `await openai.chat.completions.create(...)`
Receive(r) ==
    /\ pc = "idle"
    /\ req' = r
    /\ IF missingInput(r)
       THEN /\ responses' = Append(responses, badRequest)
            /\ providerCalls' = providerCalls
            /\ pc' = "done"
       ELSE /\ providerCalls' = Append(providerCalls, providerCall(version, r))
            /\ responses' = responses
            /\ pc' = "awaiting"
    /\ UNCHANGED <<version, completion>>

\* the provider answers and the handler runs to its response
ProviderReply(c) ==
    /\ pc = "awaiting"
    /\ completion' = c
    /\ responses' = Append(responses, respond(version, req, c))
    /\ pc' = "done"
    /\ UNCHANGED <<version, req, providerCalls>>

ProviderFailRetry(m) ==
    /\ pc = "awaiting"
    /\ completion' = ProviderError(m)
    /\ IF Len(providerCalls) < 2
       THEN /\ providerCalls' = Append(providerCalls, providerCall(version, req))
            /\ UNCHANGED <<responses, pc>>
       ELSE /\ responses' = Append(responses, serverError(m))
            /\ pc' = "done"
            /\ UNCHANGED providerCalls
    /\ UNCHANGED <<version, req>>
\* the provider call rejects and the catch block answers
ProviderFail(m) ==
    /\ pc = "awaiting"
    /\ completion' = ProviderError(m)
    /\ responses' = Append(responses, serverError(m))
    /\ pc' = "done"
    /\ UNCHANGED <<version, req, providerCalls>>

\* the request/response cycle is over; the server waits for the next request
Close ==
    /\ pc = "done"
    /\ pc' = "idle"
    /\ req' = NoRequest
    /\ providerCalls' = <<>>
    /\ completion' = NoCompletion
    /\ responses' = <<>>
    /\ UNCHANGED version

Next ==
    \/ \E r \in Requests : Receive(r)
    \/ \E c \in Contents : ProviderReply(c)
    \/ \E m \in ErrorMessages : ProviderFail(m)
    \/ Close

Spec == Init /\ [][Next]_vars

\* the provider's transport has a timeout: a call that stays unanswered is
\* rejected, so the await of the handler always ends
FairSpec == Spec /\ WF_vars(\E m \in ErrorMessages : ProviderFail(m))

----------------------------------------------------------------------------
(* Properties *)

\* C1: a request whose topic is missing or empty, or whose numQuestions is
\* missing, zero or negative, is answered 400 with an error body and the
\* completion provider is never called for it.
C1_InvalidRequestRejected ==
    (/\ pc # "idle"
     /\ \/ req.topic.t # "string"
        \/ req.topic.s = ""
        \/ req.numQuestions.t # "number"
        \/ req.numQuestions.n <= 0)
    => /\ providerCalls = <<>>
       /\ Len(responses) = 1
       /\ responses[1].status = 400
       /\ responses[1].error # ""

\* C2: when the cleaned reply text is not parseable as JSON the response is
\* still 200 with success = true, questionsInBatch = 1 and exactly one
\* question, whose category is the request's topic.
C2_ParseFailureAnswers200 ==
    (/\ pc = "done"
     /\ completion.kind = "text"
     /\ ~JSONparse(cleanResponse(trim(completion.text))).ok)
    => /\ Len(responses) = 1
       /\ responses[1].status = 200
       /\ responses[1].success
       /\ responses[1].questionsInBatch = 1
       /\ Len(responses[1].questions) = 1
       /\ responses[1].questions[1].category = req.topic

C2_Witness ==
    /\ pc = "done"
    /\ completion.kind = "text"
    /\ \E i \in 1..Len(completion.text) : completion.text[i] = Body(NotJson)
    /\ Len(responses) = 1
    /\ responses[1].status = 200

C4_NonArrayAnswers500 ==
    (/\ pc = "done"
     /\ completion.kind = "text"
     /\ LET parsed == JSONparse(cleanResponse(trim(completion.text)))
        IN parsed.ok /\ (parsed.value.t # "array" \/ parsed.value.a = <<>>))
    => /\ Len(responses) = 1
       /\ responses[1].status = 500
       /\ responses[1].details = "Invalid question format received"
       /\ ~responses[1].success
       /\ responses[1].questions = <<>>

C4_Witness ==
    /\ pc = "done"
    /\ completion = Content(<<Body(JArray(<<>>))>>)
    /\ Len(responses) = 1
    /\ responses[1].status = 500

\* C5: for batch >= 1 and a reply that is a non-empty array of objects none of
\* which carries an id, every question of the 200 response has an id in
\* startingId .. startingId+9, whatever the length of the array.
C5_DefaultIdsInBatchRange ==
    (/\ pc = "done"
     /\ completion.kind = "text"
     /\ Len(responses) = 1
     /\ responses[1].status = 200
     /\ LET parsed == JSONparse(cleanResponse(trim(completion.text)))
        IN /\ parsed.ok
           /\ parsed.value.t = "array"
           /\ parsed.value.a # <<>>
           /\ \A i \in 1..Len(parsed.value.a) :
                parsed.value.a[i].k = "object" /\ parsed.value.a[i].f.id = Undefined)
    => LET startingId == (batchOf(req) - 1) * 10 + 1
       IN \A i \in 1..Len(responses[1].questions) :
            /\ responses[1].questions[i].id.t = "number"
            /\ responses[1].questions[i].id.n >= startingId
            /\ responses[1].questions[i].id.n <= startingId + 9

\* C6: in every 200 response the ids of the questions are pairwise distinct.
C6_IdsDistinct ==
    (pc = "done" /\ Len(responses) = 1 /\ responses[1].status = 200)
    => \A i, j \in 1..Len(responses[1].questions) :
         i # j => responses[1].questions[i].id # responses[1].questions[j].id

\* C7: in every 200 response hasMoreBatches is (batch*10 < totalQuestions),
\* with batch defaulting to 1 and totalQuestions to numQuestions; the reply of
\* the provider and the number of questions returned play no part.
C7_HasMoreBatches ==
    (pc = "done" /\ Len(responses) = 1 /\ responses[1].status = 200)
    => LET b == IF req.batch = Undefined THEN 1 ELSE req.batch.n
           tq == IF req.totalQuestions = Undefined THEN req.numQuestions.n
                 ELSE req.totalQuestions.n
       IN responses[1].hasMoreBatches = (b * 10 < tq)

C7_Witness ==
    /\ pc = "done"
    /\ Len(responses) = 1
    /\ responses[1].status = 200
    /\ responses[1].questionsInBatch = 1
    /\ req.batch = Num(2)
    /\ req.totalQuestions = Num(20)
    /\ ~responses[1].hasMoreBatches

\* C8 as stated: for {topic:"graphs", numQuestions:25, batch:2,
\* totalQuestions:25} startingId is 11, the provider is asked for 10
\* questions and hasMoreBatches is false.
C8_ExampleAsStated ==
    (pc # "idle" /\ req = Request(Str("graphs"), Num(25), Num(2), Num(25)))
    => /\ Len(providerCalls) = 1
       /\ providerCalls[1].startingId = 11
       /\ providerCalls[1].limitedQuestions = 10
       /\ (pc = "done" /\ responses[1].status = 200) => responses[1].hasMoreBatches = FALSE

\* C8 amended: for that request startingId is 11, the provider is asked for
\* 10 questions and hasMoreBatches is true, since 2*10 < 25.
C8_Example ==
    (pc # "idle" /\ req = Request(Str("graphs"), Num(25), Num(2), Num(25)))
    => /\ Len(providerCalls) = 1
       /\ providerCalls[1].startingId = 11
       /\ providerCalls[1].limitedQuestions = 10
       /\ (pc = "done" /\ responses[1].status = 200) => responses[1].hasMoreBatches = TRUE

C8_Witness ==
    /\ pc = "done"
    /\ req = Request(Str("graphs"), Num(25), Num(2), Num(25))
    /\ Len(responses) = 1
    /\ responses[1].status = 200
    /\ responses[1].questionsInBatch = 10

\* C9: a reply that parses to a non-empty array is answered 200 with
\* success = true and one normalized record per element, whatever the
\* elements are (null, numbers and strings included); never 500.
C9_NormalizationTotal ==
    (/\ pc = "done"
     /\ completion.kind = "text"
     /\ LET parsed == JSONparse(cleanResponse(trim(completion.text)))
        IN parsed.ok /\ parsed.value.t = "array" /\ parsed.value.a # <<>>)
    => /\ Len(responses) = 1
       /\ responses[1].status = 200
       /\ responses[1].success
       /\ Len(responses[1].questions)
            = Len(JSONparse(cleanResponse(trim(completion.text))).value.a)

\* C10: a request that passes input validation calls the provider exactly
\* once and is then sent exactly one response; a failed provider call is not
\* retried and is answered 500 with the provider error's message as details;
\* no request gets two responses, and none is left without one.
C10_OneCallOneResponse ==
    /\ [](/\ Len(providerCalls) <= 1
          /\ Len(responses) <= 1
          /\ pc = "awaiting" => (Len(providerCalls) = 1 /\ responses = <<>>)
          /\ pc = "done" => Len(responses) = 1
          /\ (pc = "done" /\ Truthy(req.topic) /\ Truthy(req.numQuestions))
               => Len(providerCalls) = 1
          /\ (pc = "done" /\ completion.kind = "error")
               => /\ responses[1].status = 500
                  /\ responses[1].details = completion.message)
    /\ (pc = "awaiting") ~> (pc = "done" /\ Len(responses) = 1)

C10_Witness ==
    /\ pc = "done"
    /\ completion.kind = "error"
    /\ Len(providerCalls) = 1
    /\ Len(responses) = 1
    /\ responses[1].status = 500

====
